---- MODULE Spec2Model ----
(***************************************************************************)
(* Model of src/http/http_response.hpp: crow::Response (the buffered HTTP  *)
(* response with its structured payload, ETag logic, completion handler   *)
(* and liveness probe) and crow::DynamicResponse (the response with a      *)
(* body buffer of fixed capacity).                                         *)
(*                                                                         *)
(* Each object lives in a slot of `responses`; a slot that holds no        *)
(* object holds NoObject.  Strings are sequences of one-character          *)
(* strings, std::optional<T> is a set with at most one element, and a      *)
(* std::function is a natural number, 0 being the empty function.          *)
(***************************************************************************)
EXTENDS Integers, Sequences, FiniteSets, TLC

(***************************************************************************)
(* Bounds of the model.                                                    *)
(***************************************************************************)
NumResponses == 2   \* Response objects that can exist at the same time
MaxHandlers == 2    \* completion handlers that exist at the same time
MaxProbes == 1      \* liveness probes that exist at the same time
MaxCalls == 2       \* invocations recorded per completion handler
MaxBody == 1        \* length of the body text
MaxBuffer == 1      \* capacity of the body buffer of a DynamicResponse

Resp == 1..NumResponses
Handlers == 1..MaxHandlers
Probes == 1..MaxProbes

VARIABLES
    responses,     \* slot -> the Response object in it, or NoObject
    heldHandlers,  \* handlers returned by releaseCompleteRequestHandler, held by callers
    heldProbes,    \* probes returned by releaseIsAliveHelper, held by callers
    invoked,       \* handler -> how many times it has been invoked
    rearmed,       \* handler -> clear() ran on its Response since it was last invoked
    released,      \* slot -> the handler was released and no later operation named in C10 ran
    lastOp         \* the operation that ran last: see Op

vars == <<responses, heldHandlers, heldProbes,
          invoked, rearmed, released, lastOp>>

NoObject == [live |-> FALSE]
NullFn == 0

(***************************************************************************)
(* nlohmann::json values: null, an object (its members, a sequence of     *)
(* <<key, integer>> pairs in key order), an integer.                       *)
(***************************************************************************)
JNull == [type |-> "null"]
JObject(m) == [type |-> "object", members |-> m]
JNumber(n) == [type |-> "number_integer", number |-> n]

\* nlohmann::json::empty(): null is empty, a container is empty when it has
\* no element, every scalar is non-empty.
JsonEmpty(j) ==
    CASE j.type = "null" -> TRUE
      [] j.type = "object" -> j.members = <<>>
      [] OTHER -> FALSE

\* nlohmann::json::clear(): the value keeps its type and takes that type's
\* default content: {} for an object, 0 for a number, null stays null.
JsonClear(j) ==
    CASE j.type = "null" -> JNull
      [] j.type = "object" -> JObject(<<>>)
      [] OTHER -> JNumber(0)

(***************************************************************************)
(* std::hash<nlohmann::json>: the type is hashed first, then the content,  *)
(* each part folded into the seed.  Values stay below HashSpace.           *)
(***************************************************************************)
HashSpace == 2 ^ 20

HashCombine(seed, h) == (seed * 64 + (seed \div 4) + h + 40503) % HashSpace

TypeOrdinal(j) ==
    CASE j.type = "null" -> 0
      [] j.type = "object" -> 1
      [] OTHER -> 5

KeyHash(k) == IF k = "a" THEN 97 ELSE 98

RECURSIVE HashMembers(_, _)
HashMembers(seed, m) ==
    IF m = <<>> THEN seed
    ELSE HashMembers(HashCombine(HashCombine(seed, KeyHash(Head(m)[1])),
                                 HashCombine(5, Head(m)[2])),
                     Tail(m))

JsonHash(j) ==
    CASE j.type = "null" -> HashCombine(TypeOrdinal(j), 0)
      [] j.type = "object" ->
            HashMembers(HashCombine(TypeOrdinal(j), Len(j.members)), j.members)
      [] OTHER -> HashCombine(TypeOrdinal(j), j.number)

(***************************************************************************)
(* utils/hex_utils.hpp intToHexString(value, digits): the low `digits`     *)
(* hexadecimal digits of value, most significant first.                    *)
(***************************************************************************)
HexDigits == <<"0", "1", "2", "3", "4", "5", "6", "7",
               "8", "9", "a", "b", "c", "d", "e", "f">>

intToHexString(value, digits) ==
    [i \in 1..digits |-> HexDigits[((value \div (16 ^ (digits - i))) % 16) + 1]]

EtagDigits == 8

\* "\"" + intToHexString(hashval, 8) + "\""
QuotedHash(j) == <<"\"">> \o intToHexString(JsonHash(j), EtagDigits) \o <<"\"">>

(***************************************************************************)
(* boost::beast::http::response<string_body>: status, header fields, body. *)
(***************************************************************************)
NoFields == [k \in {} |-> <<>>]

\* response_type{}: status ok, no header field, empty body
response_type == [result |-> "ok", fields |-> NoFields, body |-> <<>>]

\* basic_fields::set(key, value): inserts the field or overwrites its value
FieldsSet(fields, key, value) ==
    [k \in (DOMAIN fields) \cup {key} |-> IF k = key THEN value ELSE fields[k]]

\* The message a move construction leaves behind: the status integer is
\* copied, the header fields and the body string are taken.
MovedFromMessage(msg) == [result |-> msg.result, fields |-> NoFields, body |-> <<>>]

(***************************************************************************)
(* Response: the object and its member functions, as functions of the      *)
(* object's value.                                                         *)
(***************************************************************************)
\* Response(): stringResponse(response_type{}), the other members default
Response ==
    [live |-> TRUE,
     stringResponse |-> response_type,
     jsonValue |-> JNull,
     expectedHash |-> {},
     completed |-> FALSE,
     completeRequestHandler |-> NullFn,
     isAliveHelper |-> NullFn]

addHeader(res, key, value) ==
    [res EXCEPT !.stringResponse.fields = FieldsSet(@, key, value)]

result(res, v) == [res EXCEPT !.stringResponse.result = v]

write(res, bodyPart) == [res EXCEPT !.stringResponse.body = @ \o bodyPart]

isCompleted(res) == res.completed

getHeaderValue(res, key) ==
    IF key \in DOMAIN res.stringResponse.fields
    THEN res.stringResponse.fields[key] ELSE <<>>

\* clear() that also drops the completion handler
clear_DropsHandler(res) ==
    [res EXCEPT !.stringResponse = response_type,
                !.jsonValue = JsonClear(@),
                !.completed = FALSE,
                !.expectedHash = {},
                !.completeRequestHandler = NullFn]

clear(res) ==
    [res EXCEPT !.stringResponse = response_type,
                !.jsonValue = JsonClear(@),
                !.completed = FALSE,
                !.expectedHash = {}]

\* computeEtag() without the check of the status
computeEtag_IgnoresStatus(res) ==
    IF JsonEmpty(res.jsonValue) THEN <<>> ELSE QuotedHash(res.jsonValue)

computeEtag(res) ==
    IF res.stringResponse.result # "ok" THEN <<>>
    ELSE IF JsonEmpty(res.jsonValue) THEN <<>>
    ELSE QuotedHash(res.jsonValue)

\* end() without the check of completed: a completed Response calls its
\* handler again.
end_NoCompletedCheck(res) ==
    LET etag == computeEtag(res)
        tagged == IF etag # <<>> THEN addHeader(res, "ETag", etag) ELSE res
        done == [tagged EXCEPT !.completed = TRUE]
    IN  IF done.completeRequestHandler # NullFn
        THEN [res |-> done,
              calls |-> <<[handler |-> done.completeRequestHandler,
                           completed |-> done.completed]>>]
        ELSE [res |-> done, calls |-> <<>>]

\* end() that never sets completed
end_NoCompletedSet(res) ==
    LET etag == computeEtag(res)
        tagged == IF etag # <<>> THEN addHeader(res, "ETag", etag) ELSE res
    IN  IF tagged.completed
        THEN [res |-> tagged, calls |-> <<>>]
        ELSE IF tagged.completeRequestHandler # NullFn
        THEN [res |-> tagged,
              calls |-> <<[handler |-> tagged.completeRequestHandler,
                           completed |-> tagged.completed]>>]
        ELSE [res |-> tagged, calls |-> <<>>]

\* end() that calls the handler first and sets completed afterwards
end_CallsBeforeCompleted(res) ==
    LET etag == computeEtag(res)
        tagged == IF etag # <<>> THEN addHeader(res, "ETag", etag) ELSE res
        done == [tagged EXCEPT !.completed = TRUE]
    IN  IF tagged.completed
        THEN [res |-> tagged, calls |-> <<>>]
        ELSE IF tagged.completeRequestHandler # NullFn
        THEN [res |-> done,
              calls |-> <<[handler |-> tagged.completeRequestHandler,
                           completed |-> tagged.completed]>>]
        ELSE [res |-> done, calls |-> <<>>]

\* end() that checks completed first and sets the ETag header only when the
\* Response is not completed
end_ChecksCompletedFirst(res) ==
    LET etag == computeEtag(res)
        tagged == IF etag # <<>> THEN addHeader(res, "ETag", etag) ELSE res
        done == [tagged EXCEPT !.completed = TRUE]
    IN  IF res.completed
        THEN [res |-> res, calls |-> <<>>]
        ELSE IF done.completeRequestHandler # NullFn
        THEN [res |-> done,
              calls |-> <<[handler |-> done.completeRequestHandler,
                           completed |-> done.completed]>>]
        ELSE [res |-> done, calls |-> <<>>]

\* end(): the object afterwards and the handler calls made, each with the
\* completed flag the handler sees on the Response it is passed.
end(res) ==
    LET etag == computeEtag(res)
        tagged == IF etag # <<>> THEN addHeader(res, "ETag", etag) ELSE res
        done == [tagged EXCEPT !.completed = TRUE]
    IN  IF tagged.completed
        THEN [res |-> tagged, calls |-> <<>>]
        ELSE IF done.completeRequestHandler # NullFn
        THEN [res |-> done,
              calls |-> <<[handler |-> done.completeRequestHandler,
                           completed |-> done.completed]>>]
        ELSE [res |-> done, calls |-> <<>>]

\* isAlive(), given what each probe answers when called
isAlive(res, probeAnswer) ==
    res.isAliveHelper # NullFn /\ probeAnswer[res.isAliveHelper]

\* setCompleteRequestHandler() without the reset of completed
setCompleteRequestHandler_KeepsCompleted(res, handler) ==
    [res EXCEPT !.completeRequestHandler = handler]

setCompleteRequestHandler(res, handler) ==
    [res EXCEPT !.completeRequestHandler = handler, !.completed = FALSE]

\* releaseCompleteRequestHandler() that does not mark the Response completed
releaseCompleteRequestHandler_NotCompleted(res) ==
    [res |-> [res EXCEPT !.completeRequestHandler = NullFn],
     ret |-> res.completeRequestHandler]

releaseCompleteRequestHandler(res) ==
    [res |-> [res EXCEPT !.completeRequestHandler = NullFn, !.completed = TRUE],
     ret |-> res.completeRequestHandler]

setIsAliveHelper(res, handler) == [res EXCEPT !.isAliveHelper = handler]

\* releaseIsAliveHelper() that returns a copy and keeps the probe attached
releaseIsAliveHelper_KeepsProbe(res) ==
    [res |-> res, ret |-> res.isAliveHelper]

releaseIsAliveHelper(res) ==
    [res |-> [res EXCEPT !.isAliveHelper = NullFn], ret |-> res.isAliveHelper]

\* setHashAndHandleNotModified() without the check of the status
setHashAndHandleNotModified_IgnoresStatus(res) ==
    IF JsonEmpty(res.jsonValue)
    THEN res
    ELSE LET hexVal == QuotedHash(res.jsonValue)
             tagged == addHeader(res, "ETag", hexVal)
         IN  IF tagged.expectedHash # {} /\ tagged.expectedHash = {hexVal}
             THEN result([tagged EXCEPT !.jsonValue = JsonClear(@)], "not_modified")
             ELSE tagged

setHashAndHandleNotModified(res) ==
    IF JsonEmpty(res.jsonValue) \/ res.stringResponse.result # "ok"
    THEN res
    ELSE LET hexVal == QuotedHash(res.jsonValue)
             tagged == addHeader(res, "ETag", hexVal)
         IN  IF tagged.expectedHash # {} /\ tagged.expectedHash = {hexVal}
             THEN result([tagged EXCEPT !.jsonValue = JsonClear(@)], "not_modified")
             ELSE tagged

setExpectedHash(res, hash) == [res EXCEPT !.expectedHash = {hash}]

\* A move constructor that copies the handler and leaves it in res as well
MoveConstruct_CopiesHandler(src) ==
    [dst |-> [live |-> TRUE,
              stringResponse |-> src.stringResponse,
              jsonValue |-> src.jsonValue,
              expectedHash |-> {},
              completed |-> src.completed,
              completeRequestHandler |->
                  IF ~src.completed THEN src.completeRequestHandler ELSE NullFn,
              isAliveHelper |-> src.isAliveHelper],
     src |-> [src EXCEPT
              !.stringResponse = MovedFromMessage(@),
              !.jsonValue = JNull,
              !.isAliveHelper = NullFn]]

\* A move constructor without res.isAliveHelper = nullptr: the probe is
\* copied and stays in res
MoveConstruct_KeepsSourceProbe(src) ==
    [dst |-> [live |-> TRUE,
              stringResponse |-> src.stringResponse,
              jsonValue |-> src.jsonValue,
              expectedHash |-> {},
              completed |-> src.completed,
              completeRequestHandler |->
                  IF ~src.completed THEN src.completeRequestHandler ELSE NullFn,
              isAliveHelper |-> src.isAliveHelper],
     src |-> [src EXCEPT
              !.stringResponse = MovedFromMessage(@),
              !.jsonValue = JNull,
              !.completeRequestHandler = IF ~src.completed THEN NullFn ELSE @]]

\* Response(Response&& res): the new object and what is left of res
MoveConstruct(src) ==
    LET moveHandler == ~src.completed
    IN  [dst |-> [live |-> TRUE,
                  stringResponse |-> src.stringResponse,
                  jsonValue |-> src.jsonValue,
                  expectedHash |-> {},
                  completed |-> src.completed,
                  completeRequestHandler |->
                      IF moveHandler THEN src.completeRequestHandler ELSE NullFn,
                  isAliveHelper |-> src.isAliveHelper],
         src |-> [src EXCEPT
                  !.stringResponse = MovedFromMessage(@),
                  !.jsonValue = JNull,
                  !.completeRequestHandler = IF moveHandler THEN NullFn ELSE @,
                  !.isAliveHelper = NullFn]]

\* A move assignment without the else branch: *this keeps the handler it
\* had when r is completed
MoveAssign_KeepsOwnHandler(this, r) ==
    [dst |-> [this EXCEPT
              !.stringResponse = r.stringResponse,
              !.jsonValue = r.jsonValue,
              !.completeRequestHandler =
                  IF ~r.completed THEN r.completeRequestHandler ELSE @,
              !.completed = r.completed,
              !.isAliveHelper = r.isAliveHelper],
     src |-> [r EXCEPT
              !.stringResponse = response_type,
              !.jsonValue = JNull,
              !.completeRequestHandler = IF ~r.completed THEN NullFn ELSE @,
              !.isAliveHelper = NullFn]]

\* A move assignment that does not take the probe away from r
MoveAssign_KeepsSourceProbe(this, r) ==
    [dst |-> [this EXCEPT
              !.stringResponse = r.stringResponse,
              !.jsonValue = r.jsonValue,
              !.completeRequestHandler =
                  IF ~r.completed THEN r.completeRequestHandler ELSE NullFn,
              !.completed = r.completed,
              !.isAliveHelper = r.isAliveHelper],
     src |-> [r EXCEPT
              !.stringResponse = response_type,
              !.jsonValue = JNull,
              !.completeRequestHandler = IF ~r.completed THEN NullFn ELSE @]]

\* A move assignment without the check of r.completed: the handler is taken
\* from r whether r is completed or not
MoveAssign_MovesHandlerAlways(this, r) ==
    [dst |-> [this EXCEPT
              !.stringResponse = r.stringResponse,
              !.jsonValue = r.jsonValue,
              !.completeRequestHandler = r.completeRequestHandler,
              !.completed = r.completed,
              !.isAliveHelper = r.isAliveHelper],
     src |-> [r EXCEPT
              !.stringResponse = response_type,
              !.jsonValue = JNull,
              !.completeRequestHandler = NullFn,
              !.isAliveHelper = NullFn]]

\* A move assignment without completed = r.completed
MoveAssign_KeepsOwnCompleted(this, r) ==
    [dst |-> [this EXCEPT
              !.stringResponse = r.stringResponse,
              !.jsonValue = r.jsonValue,
              !.completeRequestHandler =
                  IF ~r.completed THEN r.completeRequestHandler ELSE NullFn,
              !.isAliveHelper = r.isAliveHelper],
     src |-> [r EXCEPT
              !.stringResponse = response_type,
              !.jsonValue = JNull,
              !.completeRequestHandler = IF ~r.completed THEN NullFn ELSE @,
              !.isAliveHelper = NullFn]]

\* operator=(Response&& r) with this != &r: *this and r afterwards
MoveAssign(this, r) ==
    [dst |-> [this EXCEPT
              !.stringResponse = r.stringResponse,
              !.jsonValue = r.jsonValue,
              !.completeRequestHandler =
                  IF ~r.completed THEN r.completeRequestHandler ELSE NullFn,
              !.completed = r.completed,
              !.isAliveHelper = r.isAliveHelper],
     src |-> [r EXCEPT
              !.stringResponse = response_type,
              !.jsonValue = JNull,
              !.completeRequestHandler = IF ~r.completed THEN NullFn ELSE @,
              !.isAliveHelper = NullFn]]

(***************************************************************************)
(* DynamicResponse: the object and its member functions.  Its message has  *)
(* a keep-alive flag and a body kept in a buffer of fixed capacity.        *)
(***************************************************************************)
\* response_type{}: status ok, no header field, keep-alive, empty buffer
dynamic_response_type ==
    [result |-> "ok", fields |-> NoFields, keepAlive |-> TRUE, body |-> <<>>]

\* DynamicResponse(): bufferResponse(response_type{}), completed{}, the two
\* std::function members empty
DynamicResponse ==
    [live |-> TRUE,
     bufferResponse |-> dynamic_response_type,
     completed |-> FALSE,
     completeRequestHandler |-> NullFn,
     isAliveHelper |-> NullFn]

Dynamic_addHeader(res, key, value) ==
    [res EXCEPT !.bufferResponse.fields = FieldsSet(@, key, value)]

Dynamic_result(res, v) == [res EXCEPT !.bufferResponse.result = v]

Dynamic_keepAlive(res, k) == [res EXCEPT !.bufferResponse.keepAlive = k]

Dynamic_isCompleted(res) == res.completed

\* A write to bufferResponse->body(): the buffer takes the part if it fits
\* in its capacity and reports an error, taking nothing, if it does not.
Dynamic_write(res, bodyPart) ==
    IF Len(res.bufferResponse.body) + Len(bodyPart) <= MaxBuffer
    THEN [res |-> [res EXCEPT !.bufferResponse.body = @ \o bodyPart], ok |-> TRUE]
    ELSE [res |-> res, ok |-> FALSE]

Dynamic_clear(res) ==
    [res EXCEPT !.bufferResponse = dynamic_response_type, !.completed = FALSE]

\* DynamicResponse::end() without the check of completed
Dynamic_end_NoCompletedCheck(res) ==
    LET done == [res EXCEPT !.completed = TRUE]
    IN  IF done.completeRequestHandler # NullFn
        THEN [res |-> done,
              calls |-> <<[handler |-> done.completeRequestHandler,
                           completed |-> done.completed]>>]
        ELSE [res |-> done, calls |-> <<>>]

\* DynamicResponse::end(): the object afterwards and the handler calls made,
\* each with the completed flag the object has when the handler runs.
Dynamic_end(res) ==
    LET done == [res EXCEPT !.completed = TRUE]
    IN  IF res.completed
        THEN [res |-> res, calls |-> <<>>]
        ELSE IF done.completeRequestHandler # NullFn
        THEN [res |-> done,
              calls |-> <<[handler |-> done.completeRequestHandler,
                           completed |-> done.completed]>>]
        ELSE [res |-> done, calls |-> <<>>]

Dynamic_isAlive(res, probeAnswer) ==
    res.isAliveHelper # NullFn /\ probeAnswer[res.isAliveHelper]

\* DynamicResponse::operator=(DynamicResponse&& r) with this != &r: *this and
\* r afterwards.  The handler and the probe of neither object are touched.
Dynamic_MoveAssign(this, r) ==
    [dst |-> [this EXCEPT !.bufferResponse = r.bufferResponse,
                          !.completed = r.completed],
     src |-> [r EXCEPT !.bufferResponse = dynamic_response_type]]

\* DynamicResponse::operator=(DynamicResponse&& r) with this == &r: there is
\* no check for it; the message is moved onto itself and then replaced by
\* response_type{}, and completed is assigned to itself.
Dynamic_MoveAssignSelf(this) ==
    [this EXCEPT !.bufferResponse = dynamic_response_type]

(***************************************************************************)
(* What callers pass in.                                                   *)
(***************************************************************************)
Statuses == {"ok", "not_modified", "not_found"}
Payloads == {JNull, JObject(<< <<"a", 1>> >>), JNumber(0)}
ExpectedHashes == {QuotedHash(j) : j \in Payloads \ {JNull}}
HeaderValues == {<<"W">>}
BodyParts == {<<"x">>}

Live(r) == responses[r].live

\* What an operation returns: a string, a std::function or a bool
NoRet == [text |-> <<>>, fn |-> NullFn, yes |-> FALSE]
RetText(t) == [NoRet EXCEPT !.text = t]
RetFn(f) == [NoRet EXCEPT !.fn = f]
RetBool(b) == [NoRet EXCEPT !.yes = b]

\* The record of an operation: its name, the Response it ran on, the other
\* Response of a move, its return value, the handler calls it made and, for
\* end(), the operation that ran just before it.
NoOp == [op |-> "", r |-> 0, other |-> 0]
Op(name, r, other, ret, calls) ==
    [op |-> name, r |-> r, other |-> other, ret |-> ret, calls |-> calls,
     before |-> IF name = "end"
                THEN [op |-> lastOp.op, r |-> lastOp.r, other |-> lastOp.other]
                ELSE NoOp]

\* The handlers and probes that exist: held by a Response or by a caller
LiveHandlers ==
    {responses[r].completeRequestHandler : r \in {x \in Resp : Live(x)}}
        \cup heldHandlers \cup {NullFn}
LiveProbes ==
    {responses[r].isAliveHelper : r \in {x \in Resp : Live(x)}}
        \cup heldProbes \cup {NullFn}
FreeHandlers == Handlers \ LiveHandlers
FreeProbes == Probes \ LiveProbes
First(S) == CHOOSE x \in S : \A y \in S : x <= y

\* The handlers invoked by a sequence of handler calls
Called(calls) == {calls[i].handler : i \in DOMAIN calls}

\* The handlers held by the Responses resps and by callers
HandlersIn(resps, held) ==
    {resps[r].completeRequestHandler : r \in {x \in Resp : resps[x].live}} \cup held

Init ==
    /\ responses = [r \in Resp |-> IF r = 1 THEN Response ELSE NoObject]
    /\ heldHandlers = {}
    /\ heldProbes = {}
    /\ invoked = [h \in Handlers |-> 0]
    /\ rearmed = [h \in Handlers |-> FALSE]
    /\ released = [r \in Resp |-> "no"]
    /\ lastOp = [op |-> "Response", r |-> 1, other |-> 0, ret |-> NoRet,
                 calls |-> <<>>, before |-> NoOp]

(***************************************************************************)
(* The history variables after an operation that made the handler calls    *)
(* `calls` and ran clear() on the Responses holding the handlers `cleared`.*)
(* History is kept of the handlers that exist; a handler that no longer    *)
(* exists can never be invoked, and its history is dropped.                *)
(***************************************************************************)
Record(calls, cleared) ==
    LET exist == HandlersIn(responses', heldHandlers')
        count(h) == Cardinality({i \in DOMAIN calls : calls[i].handler = h})
    IN  /\ \A h \in Called(calls) : invoked[h] + count(h) <= MaxCalls
        /\ invoked' = [h \in Handlers |->
                          IF h \in exist THEN invoked[h] + count(h) ELSE 0]
        /\ rearmed' = [h \in Handlers |->
                          /\ h \in exist
                          /\ h \notin Called(calls)
                          /\ (rearmed[h] \/ h \in cleared)]

\* An operation on one Response that touches no handler and no probe
Content(r, name, after) ==
    /\ Live(r)
    /\ responses' = [responses EXCEPT ![r] = after]
    /\ lastOp' = Op(name, r, 0, NoRet, <<>>)
    /\ UNCHANGED <<heldHandlers, heldProbes, invoked, rearmed, released>>

Construct(r) ==
    /\ ~Live(r)
    /\ responses' = [responses EXCEPT ![r] = Response]
    /\ lastOp' = Op("Response", r, 0, NoRet, <<>>)
    /\ released' = [released EXCEPT ![r] = "no"]
    /\ UNCHANGED <<heldHandlers, heldProbes, invoked, rearmed>>

Destroy(r) ==
    /\ Live(r)
    /\ responses' = [responses EXCEPT ![r] = NoObject]
    /\ lastOp' = Op("~Response", r, 0, NoRet, <<>>)
    /\ released' = [released EXCEPT ![r] = "no"]
    /\ UNCHANGED <<heldHandlers, heldProbes>>
    /\ Record(<<>>, {})

MoveConstructFrom(dst, src) ==
    /\ dst # src /\ ~Live(dst) /\ Live(src)
    /\ LET m == MoveConstruct(responses[src])
       IN  responses' = [responses EXCEPT ![dst] = m.dst, ![src] = m.src]
    /\ lastOp' = Op("Response(Response&&)", dst, src, NoRet, <<>>)
    /\ released' = [released EXCEPT ![dst] = "no"]
    /\ UNCHANGED <<heldHandlers, heldProbes, invoked, rearmed>>

MoveAssignFrom(dst, src) ==
    /\ Live(dst) /\ Live(src)
    /\ IF dst = src
       THEN UNCHANGED <<responses, released>>
       ELSE /\ LET m == MoveAssign(responses[dst], responses[src])
               IN  responses' = [responses EXCEPT ![dst] = m.dst, ![src] = m.src]
            /\ released' = [released EXCEPT
                            ![dst] = IF @ = "no" THEN "no" ELSE "overwritten"]
    /\ lastOp' = Op("operator=", dst, src, NoRet, <<>>)
    /\ UNCHANGED <<heldHandlers, heldProbes>>
    /\ Record(<<>>, {})

AddHeader(r, key, value) == Content(r, "addHeader", addHeader(responses[r], key, value))

Result(r, v) == Content(r, "result", result(responses[r], v))

Write(r, bodyPart) ==
    /\ Live(r)
    /\ Len(responses[r].stringResponse.body) + Len(bodyPart) <= MaxBody
    /\ Content(r, "write", write(responses[r], bodyPart))

\* jsonValue is a public member: callers assign the payload
AssignJson(r, j) == Content(r, "jsonValue", [responses[r] EXCEPT !.jsonValue = j])

SetExpectedHash(r, hash) ==
    Content(r, "setExpectedHash", setExpectedHash(responses[r], hash))

SetHashAndHandleNotModified(r) ==
    Content(r, "setHashAndHandleNotModified", setHashAndHandleNotModified(responses[r]))

ComputeEtag(r) ==
    /\ Live(r)
    /\ lastOp' = Op("computeEtag", r, 0, RetText(computeEtag(responses[r])), <<>>)
    /\ UNCHANGED <<responses, heldHandlers, heldProbes, invoked, rearmed, released>>

IsAlive(r) ==
    /\ Live(r)
    /\ \E probeAnswer \in [Probes -> BOOLEAN] :
           lastOp' = Op("isAlive", r, 0, RetBool(isAlive(responses[r], probeAnswer)), <<>>)
    /\ UNCHANGED <<responses, heldHandlers, heldProbes, invoked, rearmed, released>>

Clear(r) ==
    /\ Live(r)
    /\ responses' = [responses EXCEPT ![r] = clear(@)]
    /\ released' = [released EXCEPT ![r] = "no"]
    /\ lastOp' = Op("clear", r, 0, NoRet, <<>>)
    /\ UNCHANGED <<heldHandlers, heldProbes>>
    /\ Record(<<>>, {responses[r].completeRequestHandler})

End(r) ==
    /\ Live(r)
    /\ LET e == end(responses[r])
       IN  /\ responses' = [responses EXCEPT ![r] = e.res]
           /\ lastOp' = Op("end", r, 0, NoRet, e.calls)
           /\ UNCHANGED <<heldHandlers, heldProbes, released>>
           /\ Record(e.calls, {})

\* The caller makes a new handler: the first one that no Response and no
\* caller holds.
SetCompleteRequestHandler(r) ==
    /\ Live(r)
    /\ FreeHandlers # {}
    /\ responses' = [responses EXCEPT
                     ![r] = setCompleteRequestHandler(@, First(FreeHandlers))]
    /\ released' = [released EXCEPT ![r] = "no"]
    /\ lastOp' = Op("setCompleteRequestHandler", r, 0, NoRet, <<>>)
    /\ UNCHANGED <<heldHandlers, heldProbes>>
    /\ Record(<<>>, {})

ReleaseCompleteRequestHandler(r) ==
    /\ Live(r)
    /\ LET rel == releaseCompleteRequestHandler(responses[r])
       IN  /\ responses' = [responses EXCEPT ![r] = rel.res]
           /\ heldHandlers' = heldHandlers \cup ({rel.ret} \ {NullFn})
           /\ lastOp' = Op("releaseCompleteRequestHandler", r, 0, RetFn(rel.ret), <<>>)
    /\ released' = [released EXCEPT ![r] = "released"]
    /\ UNCHANGED <<heldProbes, invoked, rearmed>>

\* The caller makes a new probe: the first one that no Response and no
\* caller holds.
SetIsAliveHelper(r) ==
    /\ Live(r)
    /\ FreeProbes # {}
    /\ responses' = [responses EXCEPT ![r] = setIsAliveHelper(@, First(FreeProbes))]
    /\ lastOp' = Op("setIsAliveHelper", r, 0, NoRet, <<>>)
    /\ UNCHANGED <<heldHandlers, heldProbes, invoked, rearmed, released>>

ReleaseIsAliveHelper(r) ==
    /\ Live(r)
    /\ LET rel == releaseIsAliveHelper(responses[r])
       IN  /\ responses' = [responses EXCEPT ![r] = rel.res]
           /\ heldProbes' = heldProbes \cup ({rel.ret} \ {NullFn})
           /\ lastOp' = Op("releaseIsAliveHelper", r, 0, RetFn(rel.ret), <<>>)
    /\ UNCHANGED <<heldHandlers, invoked, rearmed, released>>

\* What the completion handler does with the Response it is passed before
\* it returns: calls end() on it, move-assigns it to another Response, or
\* move-constructs a new Response from it.
HandlerBodies == {"end", "operator=", "Response(Response&&)"}

\* end() on a Response whose handler, run by end() at the call
\* completeRequestHandler(*this), does `body` with the Response and with dst.
EndReentrant(r, body, dst) ==
    /\ Live(r)
    /\ UNCHANGED <<heldHandlers, heldProbes>>
    /\ LET e == end(responses[r])
       IN  /\ e.calls # <<>>
           /\ CASE body = "end" ->
                    LET inner == end(e.res)
                    IN  /\ dst = r
                        /\ responses' = [responses EXCEPT ![r] = inner.res]
                        /\ released' = released
                        /\ lastOp' = Op("end{end}", r, dst, NoRet, e.calls \o inner.calls)
                        /\ Record(e.calls \o inner.calls, {})
                [] body = "operator=" ->
                    LET m == MoveAssign(responses[dst], e.res)
                    IN  /\ dst # r /\ Live(dst)
                        /\ responses' = [responses EXCEPT ![dst] = m.dst, ![r] = m.src]
                        /\ released' = [released EXCEPT
                                        ![dst] = IF @ = "no" THEN "no" ELSE "overwritten"]
                        /\ lastOp' = Op("end{operator=}", r, dst, NoRet, e.calls)
                        /\ Record(e.calls, {})
                [] body = "Response(Response&&)" ->
                    LET m == MoveConstruct(e.res)
                    IN  /\ dst # r /\ ~Live(dst)
                        /\ responses' = [responses EXCEPT ![dst] = m.dst, ![r] = m.src]
                        /\ released' = [released EXCEPT ![dst] = "no"]
                        /\ lastOp' = Op("end{Response(Response&&)}", r, dst, NoRet, e.calls)
                        /\ Record(e.calls, {})

(***************************************************************************)
(* Operations on DynamicResponse objects.                                  *)
(***************************************************************************)
InitDynamic ==
    /\ responses = [r \in Resp |-> DynamicResponse]
    /\ heldHandlers = {}
    /\ heldProbes = {}
    /\ invoked = [h \in Handlers |-> 0]
    /\ rearmed = [h \in Handlers |-> FALSE]
    /\ released = [r \in Resp |-> "no"]
    /\ lastOp = [op |-> "DynamicResponse", r |-> 1, other |-> 0, ret |-> NoRet,
                 calls |-> <<>>, before |-> NoOp]

DynamicAddHeader(r, key, value) ==
    Content(r, "DynamicResponse::addHeader", Dynamic_addHeader(responses[r], key, value))

DynamicResult(r, v) ==
    Content(r, "DynamicResponse::result", Dynamic_result(responses[r], v))

DynamicKeepAlive(r, k) ==
    Content(r, "DynamicResponse::keepAlive", Dynamic_keepAlive(responses[r], k))

\* bufferResponse is a public member: callers write the body through it
DynamicWrite(r, bodyPart) ==
    /\ Live(r)
    /\ LET w == Dynamic_write(responses[r], bodyPart)
       IN  /\ responses' = [responses EXCEPT ![r] = w.res]
           /\ lastOp' = Op("DynamicResponse::write", r, 0, RetBool(w.ok), <<>>)
    /\ UNCHANGED <<heldHandlers, heldProbes, invoked, rearmed, released>>

\* completeRequestHandler is a public member: callers assign a new handler,
\* the first one that no object and no caller holds.
DynamicAssignHandler(r) ==
    /\ Live(r)
    /\ FreeHandlers # {}
    /\ responses' = [responses EXCEPT
                     ![r].completeRequestHandler = First(FreeHandlers)]
    /\ lastOp' = Op("DynamicResponse::completeRequestHandler", r, 0, NoRet, <<>>)
    /\ UNCHANGED <<heldHandlers, heldProbes, released>>
    /\ Record(<<>>, {})

DynamicClear(r) ==
    /\ Live(r)
    /\ responses' = [responses EXCEPT ![r] = Dynamic_clear(@)]
    /\ lastOp' = Op("DynamicResponse::clear", r, 0, NoRet, <<>>)
    /\ UNCHANGED <<heldHandlers, heldProbes, released>>
    /\ Record(<<>>, {responses[r].completeRequestHandler})

DynamicEnd(r) ==
    /\ Live(r)
    /\ LET e == Dynamic_end(responses[r])
       IN  /\ responses' = [responses EXCEPT ![r] = e.res]
           /\ lastOp' = Op("DynamicResponse::end", r, 0, NoRet, e.calls)
           /\ UNCHANGED <<heldHandlers, heldProbes, released>>
           /\ Record(e.calls, {})

DynamicIsAlive(r) ==
    /\ Live(r)
    /\ \E probeAnswer \in [Probes -> BOOLEAN] :
           lastOp' = Op("DynamicResponse::isAlive", r, 0,
                        RetBool(Dynamic_isAlive(responses[r], probeAnswer)), <<>>)
    /\ UNCHANGED <<responses, heldHandlers, heldProbes, invoked, rearmed, released>>

DynamicMoveAssignFrom(dst, src) ==
    /\ Live(dst) /\ Live(src)
    /\ IF dst = src
       THEN responses' = [responses EXCEPT ![dst] = Dynamic_MoveAssignSelf(@)]
       ELSE LET m == Dynamic_MoveAssign(responses[dst], responses[src])
            IN  responses' = [responses EXCEPT ![dst] = m.dst, ![src] = m.src]
    /\ lastOp' = Op("DynamicResponse::operator=", dst, src, NoRet, <<>>)
    /\ UNCHANGED <<heldHandlers, heldProbes, invoked, rearmed, released>>

(***************************************************************************)
(* The completion protocol: Responses are given handlers, completed,       *)
(* cleared for reuse and moved between objects.                            *)
(***************************************************************************)
Next ==
    \/ \E r \in Resp : Construct(r)
    \/ \E r \in Resp : Destroy(r)
    \/ \E dst, src \in Resp : MoveConstructFrom(dst, src)
    \/ \E dst, src \in Resp : MoveAssignFrom(dst, src)
    \/ \E r \in Resp, j \in {JObject(<< <<"a", 1>> >>)} : AssignJson(r, j)
    \/ \E r \in Resp : Clear(r)
    \/ \E r \in Resp : End(r)
    \/ \E r \in Resp : SetCompleteRequestHandler(r)
    \/ \E r \in Resp : ReleaseCompleteRequestHandler(r)

Spec == Init /\ [][Next]_vars

(***************************************************************************)
(* Relocation: Responses with a status, a payload, a handler and a probe   *)
(* are completed and moved between objects.                                *)
(***************************************************************************)
NextMove ==
    \/ \E r \in Resp : Construct(r)
    \/ \E r \in Resp : Destroy(r)
    \/ \E dst, src \in Resp : MoveConstructFrom(dst, src)
    \/ \E dst, src \in Resp : MoveAssignFrom(dst, src)
    \/ \E r \in Resp, v \in {"not_found"} : Result(r, v)
    \/ \E r \in Resp, part \in BodyParts : Write(r, part)
    \/ \E r \in Resp, j \in {JObject(<< <<"a", 1>> >>)} : AssignJson(r, j)
    \/ \E r \in Resp : End(r)
    \/ \E r \in Resp : SetCompleteRequestHandler(r)
    \/ \E r \in Resp : SetIsAliveHelper(r)
    \/ \E r \in Resp : ReleaseIsAliveHelper(r)
    \/ \E r \in Resp : IsAlive(r)

SpecMove == Init /\ [][NextMove]_vars

(***************************************************************************)
(* The content of one Response: status, header, body, payload, expected    *)
(* hash, ETag computation, conditional GET, completion and clearing.       *)
(***************************************************************************)
NextEtag ==
    \/ \E r \in {1}, k \in {"ETag"}, v \in HeaderValues : AddHeader(r, k, v)
    \/ \E r \in {1}, v \in Statuses : Result(r, v)
    \/ \E r \in {1}, part \in BodyParts : Write(r, part)
    \/ \E r \in {1}, j \in Payloads : AssignJson(r, j)
    \/ \E r \in {1}, hash \in ExpectedHashes : SetExpectedHash(r, hash)
    \/ \E r \in {1} : SetHashAndHandleNotModified(r)
    \/ \E r \in {1} : ComputeEtag(r)
    \/ \E r \in {1} : Clear(r)
    \/ \E r \in {1} : End(r)

SpecEtag == Init /\ [][NextEtag]_vars

(***************************************************************************)
(* Callbacks: handlers and probes are attached to Responses, released to   *)
(* callers and moved with the Responses, which are completed and cleared.  *)
(***************************************************************************)
NextCallbacks ==
    \/ \E r \in Resp : Construct(r)
    \/ \E r \in Resp : Destroy(r)
    \/ \E dst, src \in Resp : MoveConstructFrom(dst, src)
    \/ \E dst, src \in Resp : MoveAssignFrom(dst, src)
    \/ \E r \in Resp : Clear(r)
    \/ \E r \in Resp : End(r)
    \/ \E r \in Resp : SetCompleteRequestHandler(r)
    \/ \E r \in Resp : ReleaseCompleteRequestHandler(r)
    \/ \E r \in Resp : SetIsAliveHelper(r)
    \/ \E r \in Resp : ReleaseIsAliveHelper(r)

SpecCallbacks == Init /\ [][NextCallbacks]_vars

(***************************************************************************)
(* Completion: a Response with a handler and a probe is filled and         *)
(* completed, again and again, by callers and by its own handler.          *)
(***************************************************************************)
NextEnd ==
    \/ \E r \in {2} : Construct(r)
    \/ \E r \in {2} : Destroy(r)
    \/ \E r \in {1}, k \in {"ETag"}, v \in HeaderValues : AddHeader(r, k, v)
    \/ \E r \in {1}, v \in {"ok", "not_found"} : Result(r, v)
    \/ \E r \in {1}, part \in BodyParts : Write(r, part)
    \/ \E r \in {1}, j \in Payloads \ {JNull} : AssignJson(r, j)
    \/ \E r \in {1} : SetCompleteRequestHandler(r)
    \/ \E r \in {1} : SetIsAliveHelper(r)
    \/ \E r \in Resp : End(r)
    \/ \E r, dst \in Resp, body \in HandlerBodies : EndReentrant(r, body, dst)

SpecEnd == Init /\ [][NextEnd]_vars

(***************************************************************************)
(* Streaming: DynamicResponse objects are filled, given handlers,          *)
(* completed, cleared and move-assigned.                                   *)
(***************************************************************************)
NextDynamic ==
    \/ \E r \in {1}, k \in {"ETag"}, v \in HeaderValues : DynamicAddHeader(r, k, v)
    \/ \E r \in {1}, v \in {"not_found"} : DynamicResult(r, v)
    \/ \E r \in {1}, k \in BOOLEAN : DynamicKeepAlive(r, k)
    \/ \E r \in Resp, part \in BodyParts : DynamicWrite(r, part)
    \/ \E r \in Resp : DynamicAssignHandler(r)
    \/ \E r \in Resp : DynamicClear(r)
    \/ \E r \in Resp : DynamicEnd(r)
    \/ \E r \in {1} : DynamicIsAlive(r)
    \/ \E dst, src \in Resp : DynamicMoveAssignFrom(dst, src)

SpecDynamic == InitDynamic /\ [][NextDynamic]_vars

(***************************************************************************)
(* Properties.                                                             *)
(***************************************************************************)
MoveOps == {"Response(Response&&)", "operator="}

C2_SecondEndInvokesNothing ==
    [][(/\ lastOp'.op = "end"
        /\ lastOp'.before.op = "end"
        /\ lastOp'.before.r = lastOp'.r)
       => /\ lastOp'.calls = <<>>
          /\ invoked' = invoked
          /\ Len(lastOp.calls) + Len(lastOp'.calls) <= 1
          /\ responses'[lastOp'.r].completed]_vars

\* C2: end() ran twice in a row on a Response that holds a handler, and the
\* handler has been invoked once
C2_Witness ==
    /\ lastOp.op = "end"
    /\ lastOp.before.op = "end"
    /\ lastOp.before.r = lastOp.r
    /\ lastOp.calls = <<>>
    /\ responses[lastOp.r].completeRequestHandler # NullFn
    /\ invoked[responses[lastOp.r].completeRequestHandler] = 1

\* A step that moves one Response into another one
IsMove(op) == op.op \in MoveOps /\ op.other # op.r

\* The state of a freshly constructed Response that C3 names
Blank(res) ==
    /\ res.stringResponse = response_type
    /\ JsonEmpty(res.jsonValue)
    /\ ~isCompleted(res)
    /\ res.completeRequestHandler = NullFn
    /\ res.isAliveHelper = NullFn

\* C3 as stated: after a Response is moved out of, by move construction or
\* by move assignment to another object, it is in the blank state of a
\* freshly constructed Response, whatever its completed flag was.
C3_SourceBlankAfterMove == IsMove(lastOp) => Blank(responses[lastOp.other])

\* C3, amended: after a move the source has a null payload and no probe and
\* its completed flag is unchanged; it has no handler if it was not
\* completed and keeps its handler if it was; move assignment leaves it a
\* blank message, move construction leaves its message with the status it had.
C3_SourceAfterMove ==
    [][IsMove(lastOp') =>
          LET before == responses[lastOp'.other]
              after == responses'[lastOp'.other]
          IN  /\ after.live
              /\ after.jsonValue = JNull
              /\ after.isAliveHelper = NullFn
              /\ after.completed = before.completed
              /\ after.completeRequestHandler =
                     IF before.completed THEN before.completeRequestHandler
                     ELSE NullFn
              /\ IF lastOp'.op = "operator="
                 THEN after.stringResponse = response_type
                 ELSE after.stringResponse.result = before.stringResponse.result]_vars

\* C3: a completed Response that holds a handler, a probe, a status and a
\* payload has been moved out of, and is still completed with its handler
C3_Witness ==
    /\ IsMove(lastOp)
    /\ responses[lastOp.other].completed
    /\ responses[lastOp.other].completeRequestHandler # NullFn
    /\ responses[lastOp.other].isAliveHelper = NullFn
    /\ responses[lastOp.r].isAliveHelper # NullFn
    /\ ~JsonEmpty(responses[lastOp.r].jsonValue)

\* C4: a move out of a Response that is not completed gives its handler to
\* the destination and leaves the source without one; an end() on the source
\* right after the move invokes no handler, an end() on the destination
\* right after the move invokes the handler it was given exactly once.
C4_MoveTransfersHandler ==
    [][/\ (IsMove(lastOp') /\ ~responses[lastOp'.other].completed) =>
              /\ responses'[lastOp'.r].completeRequestHandler =
                     responses[lastOp'.other].completeRequestHandler
              /\ responses'[lastOp'.other].completeRequestHandler = NullFn
       /\ (/\ lastOp'.op = "end"
           /\ IsMove(lastOp'.before)
           /\ ~responses[lastOp'.before.r].completed
           /\ lastOp'.r = lastOp'.before.other) =>
              /\ lastOp'.calls = <<>>
              /\ invoked' = invoked
       /\ (/\ lastOp'.op = "end"
           /\ IsMove(lastOp'.before)
           /\ ~responses[lastOp'.before.r].completed
           /\ lastOp'.r = lastOp'.before.r) =>
              LET h == responses[lastOp'.r].completeRequestHandler
              IN  IF h = NullFn
                  THEN lastOp'.calls = <<>> /\ invoked' = invoked
                  ELSE /\ lastOp'.calls = <<[handler |-> h, completed |-> TRUE]>>
                       /\ invoked' = [invoked EXCEPT ![h] = @ + 1]]_vars

\* C4: end() on the destination of a move invoked the handler the move gave it
C4_Witness ==
    /\ lastOp.op = "end"
    /\ IsMove(lastOp.before)
    /\ lastOp.r = lastOp.before.r
    /\ Len(lastOp.calls) = 1
    /\ lastOp.calls[1].handler = responses[lastOp.r].completeRequestHandler
    /\ responses[lastOp.before.other].live
    /\ responses[lastOp.before.other].completeRequestHandler = NullFn

\* C5: after a move out of a completed Response the destination has no
\* completion handler, for move construction and for move assignment.
C5_CompletedSourceGivesNoHandler ==
    (IsMove(lastOp) /\ responses[lastOp.other].completed) =>
        responses[lastOp.r].completeRequestHandler = NullFn

\* C5: a completed Response that holds a handler has been move-assigned to
\* another one, which has no handler
C5_Witness ==
    /\ IsMove(lastOp)
    /\ lastOp.op = "operator="
    /\ responses[lastOp.other].completed
    /\ responses[lastOp.other].completeRequestHandler # NullFn
    /\ responses[lastOp.r].completeRequestHandler = NullFn

\* C6: end() on a Response that is not completed, with status ok and a
\* non-empty payload, sets the ETag header to computeEtag(), sets completed
\* and invokes the attached handler exactly once, the handler seeing
\* completed already true; without a handler only the invocation is skipped.
C6_EndCompletes ==
    [][(/\ lastOp'.op = "end"
        /\ ~responses[lastOp'.r].completed
        /\ responses[lastOp'.r].stringResponse.result = "ok"
        /\ ~JsonEmpty(responses[lastOp'.r].jsonValue)) =>
          LET before == responses[lastOp'.r]
              after == responses'[lastOp'.r]
              h == before.completeRequestHandler
          IN  /\ computeEtag(before) # <<>>
              /\ getHeaderValue(after, "ETag") = computeEtag(before)
              /\ isCompleted(after)
              /\ IF h = NullFn
                 THEN lastOp'.calls = <<>> /\ invoked' = invoked
                 ELSE /\ lastOp'.calls = <<[handler |-> h, completed |-> TRUE]>>
                      /\ invoked' = [invoked EXCEPT ![h] = @ + 1]]_vars

\* C6: end() has set the ETag header of a Response with a payload and
\* invoked its handler, which saw the Response completed
C6_Witness ==
    /\ lastOp.op = "end"
    /\ Len(lastOp.calls) = 1
    /\ lastOp.calls[1].completed
    /\ ~JsonEmpty(responses[lastOp.r].jsonValue)
    /\ getHeaderValue(responses[lastOp.r], "ETag") =
           QuotedHash(responses[lastOp.r].jsonValue)
    /\ isCompleted(responses[lastOp.r])

\* C7: setHashAndHandleNotModified() on a Response with status ok and a
\* non-empty payload sets the ETag header to the computed tag; when
\* expectedHash equals the tag the status becomes not_modified and the
\* payload is empty afterwards, otherwise status and payload are unchanged;
\* with another status or an empty payload the operation changes nothing.
C7_SetHashAndHandleNotModified ==
    [][lastOp'.op = "setHashAndHandleNotModified" =>
          LET before == responses[lastOp'.r]
              after == responses'[lastOp'.r]
              tag == QuotedHash(before.jsonValue)
          IN  IF before.stringResponse.result = "ok" /\ ~JsonEmpty(before.jsonValue)
              THEN /\ getHeaderValue(after, "ETag") = tag
                   /\ IF before.expectedHash = {tag}
                      THEN /\ after.stringResponse.result = "not_modified"
                           /\ JsonEmpty(after.jsonValue)
                      ELSE /\ after.stringResponse.result = before.stringResponse.result
                           /\ after.jsonValue = before.jsonValue
              ELSE after = before]_vars

\* C8: computeEtag() returns the empty string unless the status is ok and
\* the payload is non-empty; otherwise it returns a quoted tag of EtagDigits
\* digits that depends on the payload alone; it changes nothing of the
\* Response.
C8_ComputeEtag ==
    [][lastOp'.op = "computeEtag" =>
          LET res == responses[lastOp'.r]
              ret == lastOp'.ret.text
          IN  /\ responses' = responses
              /\ IF res.stringResponse.result = "ok" /\ ~JsonEmpty(res.jsonValue)
                 THEN /\ Len(ret) = EtagDigits + 2
                      /\ Head(ret) = "\"" /\ ret[Len(ret)] = "\""
                      /\ \A i \in 2..(Len(ret) - 1) :
                            \E d \in DOMAIN HexDigits : ret[i] = HexDigits[d]
                      /\ ret = computeEtag([Response EXCEPT !.jsonValue = res.jsonValue])
                 ELSE ret = <<>>]_vars

\* C8: computeEtag() returned a tag for a Response that has a body, an
\* expected hash and an ETag header of another value
C8_Witness ==
    /\ lastOp.op = "computeEtag"
    /\ lastOp.ret.text # <<>>
    /\ responses[lastOp.r].stringResponse.body # <<>>
    /\ responses[lastOp.r].expectedHash # {}
    /\ getHeaderValue(responses[lastOp.r], "ETag") \notin {<<>>, lastOp.ret.text}

\* C9: after clear() the Response is not completed, has no expected hash,
\* an empty payload and a blank message (status ok, no header, empty body).
C9_ClearResets ==
    lastOp.op = "clear" =>
        /\ ~isCompleted(responses[lastOp.r])
        /\ responses[lastOp.r].expectedHash = {}
        /\ JsonEmpty(responses[lastOp.r].jsonValue)
        /\ responses[lastOp.r].stringResponse = response_type

\* C10 as stated: releaseCompleteRequestHandler() returns the attached
\* handler and leaves the Response without a handler and completed, and an
\* end() on that Response invokes no handler as long as neither
\* setCompleteRequestHandler() nor clear() has run on it since.
C10_EndAfterReleaseInvokesNothing ==
    [][/\ lastOp'.op = "releaseCompleteRequestHandler" =>
              /\ lastOp'.ret.fn = responses[lastOp'.r].completeRequestHandler
              /\ responses'[lastOp'.r].completeRequestHandler = NullFn
              /\ isCompleted(responses'[lastOp'.r])
       /\ (lastOp'.op = "end" /\ released[lastOp'.r] # "no") =>
              /\ lastOp'.calls = <<>>
              /\ invoked' = invoked]_vars

\* C10, amended: the same, as long as neither setCompleteRequestHandler()
\* nor clear() nor a move assignment onto the Response has run on it since.
C10_EndAfterReleaseUnlessAssigned ==
    [][/\ lastOp'.op = "releaseCompleteRequestHandler" =>
              /\ lastOp'.ret.fn = responses[lastOp'.r].completeRequestHandler
              /\ responses'[lastOp'.r].completeRequestHandler = NullFn
              /\ isCompleted(responses'[lastOp'.r])
       /\ (lastOp'.op = "end" /\ released[lastOp'.r] = "released") =>
              /\ lastOp'.calls = <<>>
              /\ invoked' = invoked]_vars

\* C10: a handler was released to the caller and end() ran later on the
\* Response it was released from
C10_Witness ==
    /\ lastOp.op = "end"
    /\ released[lastOp.r] = "released"
    /\ heldHandlers # {}
    /\ lastOp.before.op # "releaseCompleteRequestHandler"

\* C11: setCompleteRequestHandler(h) attaches h in place of the handler the
\* Response held, which then exists nowhere, and leaves the Response not
\* completed, whether or not it was completed; the end() that follows
\* invokes h, for the first time and once, with the Response completed; no
\* end() invokes a handler other than the one attached to its Response.
C11_SetHandlerRearms ==
    [][/\ lastOp'.op = "setCompleteRequestHandler" =>
              LET old == responses[lastOp'.r].completeRequestHandler
                  after == responses'[lastOp'.r]
              IN  /\ after.completeRequestHandler # NullFn
                  /\ after.completeRequestHandler # old
                  /\ ~isCompleted(after)
                  /\ old # NullFn => old \notin HandlersIn(responses', heldHandlers')
       /\ (/\ lastOp'.op = "end"
           /\ lastOp'.before.op = "setCompleteRequestHandler"
           /\ lastOp'.before.r = lastOp'.r) =>
              LET h == responses[lastOp'.r].completeRequestHandler
              IN  /\ lastOp'.calls = <<[handler |-> h, completed |-> TRUE]>>
                  /\ invoked[h] = 0
                  /\ invoked'[h] = 1
       /\ lastOp'.op = "end" =>
              Called(lastOp'.calls) \subseteq
                  {responses[lastOp'.r].completeRequestHandler}]_vars

\* C11: the second handler was attached to a Response in place of the first
\* one, which exists no more, and the end() that followed invoked the second
C11_Witness ==
    /\ lastOp.op = "end"
    /\ lastOp.before.op = "setCompleteRequestHandler"
    /\ lastOp.before.r = lastOp.r
    /\ Len(lastOp.calls) = 1
    /\ lastOp.calls[1].handler = 2
    /\ responses[lastOp.r].completeRequestHandler = 2
    /\ 1 \notin HandlersIn(responses, heldHandlers)
    /\ invoked[2] = 1

\* C12: a move of a Response into another one, by construction or by
\* assignment, from a completed source or not, gives the destination the
\* source's probe and leaves the source without one, so that whatever the
\* probes answer isAlive() is false on the source and is the moved probe's
\* answer on the destination; isAlive() returns true only on a Response
\* that has a probe, and false on every Response that has none.
C12_ProbeMovesAlways ==
    [][/\ IsMove(lastOp') =>
              LET probe == responses[lastOp'.other].isAliveHelper
                  dst == responses'[lastOp'.r]
                  src == responses'[lastOp'.other]
              IN  /\ dst.isAliveHelper = probe
                  /\ src.isAliveHelper = NullFn
                  /\ \A probeAnswer \in [Probes -> BOOLEAN] :
                        /\ ~isAlive(src, probeAnswer)
                        /\ isAlive(dst, probeAnswer) =
                               (probe # NullFn /\ probeAnswer[probe])
       /\ lastOp'.op = "isAlive" =>
              /\ lastOp'.ret.yes => responses[lastOp'.r].isAliveHelper # NullFn
              /\ responses[lastOp'.r].isAliveHelper = NullFn => ~lastOp'.ret.yes]_vars

\* C12: a completed Response with a probe has been moved by construction;
\* the new Response has the probe and the source has none
C12_Witness ==
    /\ IsMove(lastOp)
    /\ lastOp.op = "Response(Response&&)"
    /\ responses[lastOp.other].completed
    /\ responses[lastOp.other].isAliveHelper = NullFn
    /\ responses[lastOp.r].isAliveHelper # NullFn
    /\ heldProbes = {}

\* C13: end() on a DynamicResponse that is not completed sets completed,
\* changes nothing else of it and invokes the attached handler once, or no
\* handler if none is attached; end() on a completed DynamicResponse invokes
\* no handler and changes nothing.
C13_DynamicEndOnce ==
    [][lastOp'.op = "DynamicResponse::end" =>
          LET before == responses[lastOp'.r]
              after == responses'[lastOp'.r]
              h == before.completeRequestHandler
          IN  IF ~Dynamic_isCompleted(before)
              THEN /\ after = [before EXCEPT !.completed = TRUE]
                   /\ IF h = NullFn
                      THEN lastOp'.calls = <<>> /\ invoked' = invoked
                      ELSE /\ lastOp'.calls = <<[handler |-> h, completed |-> TRUE]>>
                           /\ invoked' = [invoked EXCEPT ![h] = @ + 1]
              ELSE /\ responses' = responses
                   /\ lastOp'.calls = <<>>
                   /\ invoked' = invoked]_vars

\* C13: end() ran on a completed DynamicResponse whose handler had been
\* invoked once, and invoked nothing
C13_Witness ==
    /\ lastOp.op = "DynamicResponse::end"
    /\ lastOp.calls = <<>>
    /\ Dynamic_isCompleted(responses[lastOp.r])
    /\ responses[lastOp.r].completeRequestHandler # NullFn
    /\ invoked[responses[lastOp.r].completeRequestHandler] = 1

\* C14 as stated: the completed flag of a DynamicResponse becomes true only
\* in an end() on that object; no setter, no rejected write and no move
\* assignment makes it true.
C14_CompletedOnlyByEnd ==
    [][\A r \in Resp :
          (Dynamic_isCompleted(responses'[r]) /\ ~Dynamic_isCompleted(responses[r])) =>
              (lastOp'.op = "DynamicResponse::end" /\ lastOp'.r = r)]_vars

\* C16: on a Response whose status is not_modified, as it is once
\* setHashAndHandleNotModified() has matched the expected hash, end() and
\* setHashAndHandleNotModified() leave the status not_modified and the ETag
\* header as it is: they neither remove nor overwrite it.
C16_NotModifiedKeepsEtag ==
    [][(/\ lastOp'.op \in {"end", "setHashAndHandleNotModified"}
        /\ responses[lastOp'.r].stringResponse.result = "not_modified") =>
          /\ responses'[lastOp'.r].stringResponse.result = "not_modified"
          /\ DOMAIN responses'[lastOp'.r].stringResponse.fields =
                 DOMAIN responses[lastOp'.r].stringResponse.fields
          /\ getHeaderValue(responses'[lastOp'.r], "ETag") =
                 getHeaderValue(responses[lastOp'.r], "ETag")]_vars

\* C16: setHashAndHandleNotModified() matched the expected hash of an object
\* payload and emptied it, then end() ran: the status is not_modified and
\* the ETag header is the matched tag
C16_Witness ==
    /\ lastOp.op = "end"
    /\ lastOp.before.op = "setHashAndHandleNotModified"
    /\ responses[lastOp.r].stringResponse.result = "not_modified"
    /\ responses[lastOp.r].jsonValue = JObject(<<>>)
    /\ responses[lastOp.r].expectedHash = {getHeaderValue(responses[lastOp.r], "ETag")}
    /\ isCompleted(responses[lastOp.r])

\* C17: clear() leaves the completion handler and the probe of the Response
\* as they are, gives none of them to a caller and invokes no handler.
C17_ClearKeepsCallbacks ==
    [][lastOp'.op = "clear" =>
          /\ responses'[lastOp'.r].completeRequestHandler =
                 responses[lastOp'.r].completeRequestHandler
          /\ responses'[lastOp'.r].isAliveHelper = responses[lastOp'.r].isAliveHelper
          /\ heldHandlers' = heldHandlers
          /\ heldProbes' = heldProbes
          /\ lastOp'.calls = <<>>
          /\ invoked' = invoked]_vars

\* C17: clear() ran on a Response that holds a probe and a handler that
\* end() had invoked, and both are still attached
C17_Witness ==
    /\ lastOp.op = "clear"
    /\ responses[lastOp.r].completeRequestHandler # NullFn
    /\ responses[lastOp.r].isAliveHelper # NullFn
    /\ invoked[responses[lastOp.r].completeRequestHandler] = 1
    /\ ~isCompleted(responses[lastOp.r])

\* The holders of a completion handler and of a probe: the Responses it is
\* attached to and, if a caller holds it, the caller (0)
HandlerHolders(h) ==
    {r \in Resp : Live(r) /\ responses[r].completeRequestHandler = h}
        \cup (IF h \in heldHandlers THEN {0} ELSE {})
ProbeHolders(p) ==
    {r \in Resp : Live(r) /\ responses[r].isAliveHelper = p}
        \cup (IF p \in heldProbes THEN {0} ELSE {})

\* C18: after every operation each completion handler and each probe has at
\* most one holder, a Response or the caller it was released to; a release
\* leaves the Response without the callback it returned, a move leaves the
\* source without a probe and, when the destination got a handler, without
\* a handler.
C18_CallbacksNeverDuplicated ==
    [][/\ \A h \in Handlers : Cardinality(HandlerHolders(h)') <= 1
       /\ \A p \in Probes : Cardinality(ProbeHolders(p)') <= 1
       /\ lastOp'.op = "releaseCompleteRequestHandler" =>
              /\ lastOp'.ret.fn = responses[lastOp'.r].completeRequestHandler
              /\ responses'[lastOp'.r].completeRequestHandler = NullFn
       /\ lastOp'.op = "releaseIsAliveHelper" =>
              /\ lastOp'.ret.fn = responses[lastOp'.r].isAliveHelper
              /\ responses'[lastOp'.r].isAliveHelper = NullFn
       /\ IsMove(lastOp') =>
              /\ responses'[lastOp'.other].isAliveHelper = NullFn
              /\ responses'[lastOp'.r].completeRequestHandler # NullFn =>
                     responses'[lastOp'.other].completeRequestHandler = NullFn]_vars

\* C18: a caller holds a released handler and a released probe, and a move
\* has taken another handler from one Response to another
C18_Witness ==
    /\ IsMove(lastOp)
    /\ heldHandlers # {}
    /\ heldProbes # {}
    /\ responses[lastOp.r].completeRequestHandler # NullFn
    /\ responses[lastOp.other].live
    /\ responses[lastOp.other].completeRequestHandler = NullFn

\* C20: a move assignment onto another Response gives the destination the
\* completed flag the source had, and the handler the destination held
\* exists nowhere afterwards and was not invoked; a move assignment of a
\* Response onto itself changes no Response, no callback and no count.
C20_MoveAssignment ==
    [][lastOp'.op = "operator=" =>
          IF lastOp'.other # lastOp'.r
          THEN LET old == responses[lastOp'.r].completeRequestHandler
               IN  /\ responses'[lastOp'.r].completed = responses[lastOp'.other].completed
                   /\ old # NullFn => old \notin HandlersIn(responses', heldHandlers')
                   /\ lastOp'.calls = <<>>
                   /\ \A h \in Handlers : invoked'[h] <= invoked[h]
          ELSE /\ responses' = responses
               /\ heldHandlers' = heldHandlers
               /\ heldProbes' = heldProbes
               /\ invoked' = invoked]_vars

\* C20: a Response that was completed by the release of its handler has
\* been move-assigned onto from a Response that was not completed, and is
\* no longer completed
C20_Witness ==
    /\ lastOp.op = "operator="
    /\ lastOp.other # lastOp.r
    /\ released[lastOp.r] = "overwritten"
    /\ ~isCompleted(responses[lastOp.r])
    /\ ~isCompleted(responses[lastOp.other])
    /\ responses[lastOp.r].completeRequestHandler # NullFn

\* The names under which end() is recorded: called by a caller, or with a
\* handler that re-enters end() or moves the Response away
MovingEnds == {"end{operator=}", "end{Response(Response&&)}"}
EndOps == {"end", "end{end}"} \cup MovingEnds

\* C15 as stated: end() on a completed Response invokes no handler and
\* leaves the whole Response, the ETag header included, as it was.
C15_SecondEndChangesNothing ==
    [][(lastOp'.op = "end" /\ isCompleted(responses[lastOp'.r])) =>
          /\ lastOp'.calls = <<>>
          /\ invoked' = invoked
          /\ responses'[lastOp'.r] = responses[lastOp'.r]]_vars

\* C15, amended: end() on a completed Response invokes no handler and
\* leaves the completed flag, the handler, the probe, the status, the
\* payload, the body, the expected hash and every header but ETag as they
\* were; it sets the ETag header to computeEtag() when that is not empty
\* and leaves it as it was otherwise.
C15_SecondEndOnlyTags ==
    [][(lastOp'.op = "end" /\ isCompleted(responses[lastOp'.r])) =>
          LET before == responses[lastOp'.r]
              after == responses'[lastOp'.r]
              etag == computeEtag(before)
              fieldsBefore == before.stringResponse.fields
              fieldsAfter == after.stringResponse.fields
          IN  /\ lastOp'.calls = <<>>
              /\ invoked' = invoked
              /\ [after EXCEPT !.stringResponse.fields = fieldsBefore] = before
              /\ DOMAIN fieldsAfter =
                     DOMAIN fieldsBefore \cup (IF etag # <<>> THEN {"ETag"} ELSE {})
              /\ \A k \in DOMAIN fieldsBefore \ {"ETag"} :
                     fieldsAfter[k] = fieldsBefore[k]
              /\ getHeaderValue(after, "ETag") =
                     IF etag # <<>> THEN etag ELSE getHeaderValue(before, "ETag")]_vars

\* C15: a caller set the ETag header of a completed Response that holds a
\* probe and a handler invoked once, and the end() that followed invoked
\* nothing and replaced the header by the tag of the payload
C15_Witness ==
    /\ lastOp.op = "end"
    /\ lastOp.before.op = "addHeader"
    /\ lastOp.before.r = lastOp.r
    /\ lastOp.calls = <<>>
    /\ isCompleted(responses[lastOp.r])
    /\ responses[lastOp.r].isAliveHelper # NullFn
    /\ responses[lastOp.r].completeRequestHandler # NullFn
    /\ invoked[responses[lastOp.r].completeRequestHandler] = 1
    /\ getHeaderValue(responses[lastOp.r], "ETag") =
           QuotedHash(responses[lastOp.r].jsonValue)

\* C19: every handler that end() invokes sees the Response completed; when
\* the handler calls end() on its Response, the two end() together invoke
\* the handler once and leave the Response completed; when the handler
\* moves its Response into another one, by assignment or by construction,
\* the Response keeps its handler and the other one gets none.
C19_HandlerSeesCompleted ==
    [][/\ lastOp'.op \in EndOps =>
              \A i \in DOMAIN lastOp'.calls : lastOp'.calls[i].completed
       /\ lastOp'.op = "end{end}" =>
              LET h == responses[lastOp'.r].completeRequestHandler
              IN  /\ lastOp'.calls = <<[handler |-> h, completed |-> TRUE]>>
                  /\ invoked' = [invoked EXCEPT ![h] = @ + 1]
                  /\ isCompleted(responses'[lastOp'.r])
                  /\ responses'[lastOp'.r].completeRequestHandler = h
       /\ lastOp'.op \in MovingEnds =>
              LET h == responses[lastOp'.r].completeRequestHandler
              IN  /\ h # NullFn
                  /\ lastOp'.calls = <<[handler |-> h, completed |-> TRUE]>>
                  /\ responses'[lastOp'.r].completeRequestHandler = h
                  /\ responses'[lastOp'.other].completeRequestHandler = NullFn
                  /\ isCompleted(responses'[lastOp'.other])]_vars

\* C19: a handler running in end() has move-assigned its Response, with its
\* payload and its probe, to another Response; the Response still holds
\* the handler, invoked once
C19_Witness ==
    /\ lastOp.op = "end{operator=}"
    /\ Len(lastOp.calls) = 1
    /\ lastOp.calls[1].completed
    /\ responses[lastOp.r].completeRequestHandler = lastOp.calls[1].handler
    /\ invoked[lastOp.calls[1].handler] = 1
    /\ responses[lastOp.other].completeRequestHandler = NullFn
    /\ responses[lastOp.other].isAliveHelper # NullFn
    /\ ~JsonEmpty(responses[lastOp.other].jsonValue)

====
